---- MODULE Spec2Model ----
(***************************************************************************)
(* A model of the Cat Database MCP server (src/src/main.rs): the in-memory *)
(* repository built by CatServer::new, the tool catalog returned by        *)
(* list_tools, and the dispatcher call_tool.                               *)
(*                                                                         *)
(* Representation.                                                         *)
(*  - Text (String, &str) is a TLA+ string; format! is \o.                 *)
(*  - An unsigned integer is a little-endian sequence of 16-bit limbs: a   *)
(*    u64 has four limbs, a u32 has two.  The cast `as u32` keeps the two  *)
(*    low limbs.  Decimal formatting is long division by ten on the limbs. *)
(*  - Option<T> is a sequence of length 0 (None) or 1 (Some).              *)
(*  - A serde_json::Value is a record [tag, n, s, b]; the tags PosInt,     *)
(*    NegInt and Float are serde_json's three kinds of Number.             *)
(***************************************************************************)
EXTENDS Integers, Sequences, FiniteSets, TLC

VARIABLES
    cats,       \* CatServer.cats: HashMap<u32, Cat>
    iterOrder,  \* the order in which cats.values() visits the keys
    request,    \* the request the handler was given: None between requests
    response    \* the handler's result, until the service loop has written it

vars == <<cats, iterOrder, request, response>>

----------------------------------------------------------------------------
(* Option<T> *)

None == <<>>

Some(x) == <<x>>

IsSome(o) == Len(o) = 1

Unwrap(o) == o[1]

----------------------------------------------------------------------------
(* Unsigned integers as 16-bit limbs *)

LimbBase == 2^16

MaxLimb == LimbBase - 1

\* A small number as a u32 / u64 / usize.
U32(k) == <<k, 0>>

U64(k) == <<k, 0, 0, 0>>

Usize(k) == <<k, 0, 0, 0>>

\* u64::MAX
U64Max == <<MaxLimb, MaxLimb, MaxLimb, MaxLimb>>

\* `v as u32`: the truncating cast keeps the low 32 bits.
AsU32(v) == SubSeq(v, 1, 2)

\* A u32 as the u64 of the same value (to compare an entity's id with a
\* requested u64).
WidenU32(v) == v \o <<0, 0>>

RECURSIVE IsZero(_)
IsZero(v) == IF v = <<>> THEN TRUE ELSE Head(v) = 0 /\ IsZero(Tail(v))

\* Long division of the limbs by ten, most significant limb first.
\* Returns [q |-> quotient limbs, r |-> remainder].
RECURSIVE DivMod10(_)
DivMod10(v) ==
    IF v = <<>> THEN [q |-> <<>>, r |-> 0]
    ELSE LET hi  == DivMod10(Tail(v))
             cur == hi.r * LimbBase + Head(v)
         IN  [q |-> <<cur \div 10>> \o hi.q, r |-> cur % 10]

DigitChar == <<"0", "1", "2", "3", "4", "5", "6", "7", "8", "9">>

RECURSIVE Digits(_)
Digits(v) ==
    IF IsZero(v) THEN ""
    ELSE LET d == DivMod10(v) IN Digits(d.q) \o DigitChar[d.r + 1]

\* impl Display for u32 / u64 / usize
ToDecimal(v) == IF IsZero(v) THEN "0" ELSE Digits(v)

----------------------------------------------------------------------------
(* Text *)

\* str::contains(&str): needle occurs in hay as a contiguous, case-sensitive
\* substring, searched position by position.
RECURSIVE FindFrom(_, _, _)
FindFrom(hay, needle, i) ==
    IF i + Len(needle) - 1 > Len(hay) THEN FALSE
    ELSE IF SubSeq(hay, i, i + Len(needle) - 1) = needle THEN TRUE
    ELSE FindFrom(hay, needle, i + 1)

StrContains(hay, needle) == FindFrom(hay, needle, 1)

\* Letter case folded to lower case, letter by letter (used to compare
\* names letter case apart).
UpperLetters == "ABCDEFGHIJKLMNOPQRSTUVWXYZ"

LowerLetters == "abcdefghijklmnopqrstuvwxyz"

LowerChar(c) ==
    IF \E i \in 1..Len(UpperLetters) : SubSeq(UpperLetters, i, i) = c
    THEN LET i == CHOOSE i \in 1..Len(UpperLetters) : SubSeq(UpperLetters, i, i) = c
         IN  SubSeq(LowerLetters, i, i)
    ELSE c

RECURSIVE Lower(_)
Lower(s) ==
    IF Len(s) = 0 THEN ""
    ELSE LowerChar(SubSeq(s, 1, 1)) \o Lower(SubSeq(s, 2, Len(s)))

\* serde_json's string escaping, for the characters the model's texts use:
\* a text without a character to escape is written as it is, any other
\* character by character.
NeedsEscape(c) == c \in {"\"", "\\", "\n"}

EscapeChar(c) ==
    IF c = "\"" THEN "\\\""
    ELSE IF c = "\\" THEN "\\\\"
    ELSE IF c = "\n" THEN "\\n"
    ELSE c

RECURSIVE EscapeFrom(_, _)
EscapeFrom(s, i) ==
    IF i > Len(s) THEN ""
    ELSE EscapeChar(SubSeq(s, i, i)) \o EscapeFrom(s, i + 1)

JsonEscape(s) ==
    IF \A i \in 1..Len(s) : ~NeedsEscape(SubSeq(s, i, i)) THEN s
    ELSE EscapeFrom(s, 1)

JsonString(s) == "\"" \o JsonEscape(s) \o "\""

JsonBool(b) == IF b THEN "true" ELSE "false"

----------------------------------------------------------------------------
(* The repository: CatServer::new *)

Cat(id, name, age, breed, color, is_indoor, favorite_toy) ==
    [id |-> id, name |-> name, age |-> age, breed |-> breed, color |-> color,
     is_indoor |-> is_indoor, favorite_toy |-> favorite_toy]

Mike == Cat(U32(1), "Mike", U32(3), "Calico", "Calico", TRUE, "Mouse toy")

Shiro == Cat(U32(2), "Shiro", U32(5), "Persian", "White", TRUE, "Yarn ball")

Kuro == Cat(U32(3), "Kuro", U32(2), "Black cat", "Black", FALSE, "Butterfly")

Chatora ==
    Cat(U32(4), "Chatora", U32(7), "Orange tabby", "Orange tabby", TRUE, "Catnip")

\* HashMap<u32, Cat> after the four inserts: a function from key to Cat.
SampleCats ==
    [k \in {U32(1), U32(2), U32(3), U32(4)} |->
        IF k = U32(1) THEN Mike
        ELSE IF k = U32(2) THEN Shiro
        ELSE IF k = U32(3) THEN Kuro
        ELSE Chatora]

\* HashMap::values() visits the entries in an order fixed by the map's
\* (randomly seeded) hasher: any permutation of the keys, the same one for
\* as long as the map is not modified.
Orders(m) ==
    {o \in [1..Cardinality(DOMAIN m) -> DOMAIN m] :
        \A i, j \in DOMAIN o : i # j => o[i] # o[j]}

\* self.cats.values().collect(); .filter(..).collect() is SelectSeq on it,
\* which keeps the order.
Values(m, order) == [i \in DOMAIN order |-> m[order[i]]]

\* self.cats.get(&id)
MapGet(m, id) == IF id \in DOMAIN m THEN Some(m[id]) ELSE None

----------------------------------------------------------------------------
(* serde_json::to_string_pretty, for Cat and Vec<&Cat> (two-space indent). *)
(* Serializing a struct of integers, strings and a bool cannot fail, so the *)
(* map_err branches that answer INTERNAL_ERROR are never taken.            *)

Indent == "  "

\* #[derive(Serialize)] struct Cat: the fields in declaration order.
PrettyCat(cat, ind) ==
    LET in2 == ind \o Indent
    IN  "{\n"
        \o in2 \o "\"id\": " \o ToDecimal(cat.id) \o ",\n"
        \o in2 \o "\"name\": " \o JsonString(cat.name) \o ",\n"
        \o in2 \o "\"age\": " \o ToDecimal(cat.age) \o ",\n"
        \o in2 \o "\"breed\": " \o JsonString(cat.breed) \o ",\n"
        \o in2 \o "\"color\": " \o JsonString(cat.color) \o ",\n"
        \o in2 \o "\"is_indoor\": " \o JsonBool(cat.is_indoor) \o ",\n"
        \o in2 \o "\"favorite_toy\": " \o JsonString(cat.favorite_toy) \o "\n"
        \o ind \o "}"

RECURSIVE PrettyElems(_, _)
PrettyElems(seq, ind) ==
    IF seq = <<>> THEN ""
    ELSE ind \o PrettyCat(Head(seq), ind)
         \o (IF Tail(seq) = <<>> THEN "\n" ELSE ",\n")
         \o PrettyElems(Tail(seq), ind)

PrettyVec(seq) ==
    IF seq = <<>> THEN "[]" ELSE "[\n" \o PrettyElems(seq, Indent) \o "]"

----------------------------------------------------------------------------
(* serde_json::Value and the argument bag *)

JValue(tag, n, str, b) == [tag |-> tag, n |-> n, s |-> str, b |-> b]

JNull == JValue("Null", <<>>, "", FALSE)

JBool(b) == JValue("Bool", <<>>, "", b)

\* Number::PosInt(u64): a non-negative integer.
JPosInt(n) == JValue("PosInt", n, "", FALSE)

\* Number::NegInt(i64): a negative integer, kept by its magnitude.
JNegInt(magnitude) == JValue("NegInt", magnitude, "", FALSE)

\* Number::Float(f64): a number written with a fraction or an exponent,
\* kept by its literal.
JFloat(literal) == JValue("Float", <<>>, literal, FALSE)

JString(str) == JValue("String", <<>>, str, FALSE)

JArray == JValue("Array", <<>>, "", FALSE)

JObject == JValue("Object", <<>>, "", FALSE)

\* Value::as_u64: Some only for a PosInt.
as_u64(v) == IF v.tag = "PosInt" THEN Some(v.n) ELSE None

\* Value::as_str: Some only for a String.
as_str(v) == IF v.tag = "String" THEN Some(v.s) ELSE None

\* Map::get(key)
args_get(args, key) == IF key \in DOMAIN args THEN Some(args[key]) ELSE None

----------------------------------------------------------------------------
(* Results *)

INVALID_PARAMS == "invalid_params"

METHOD_NOT_FOUND == "method_not_found"

INTERNAL_ERROR == "internal_error"

\* Err(ErrorData { code, message, data: None })
Err(code, message) ==
    [ok |-> FALSE, code |-> code, message |-> message, data |-> None,
     content |-> <<>>, is_error |-> None]

\* Content::text(..)
ContentText(text) == [type |-> "text", text |-> text]

\* Ok(CallToolResult { content: result, is_error: Some(false) })
OkResult(content) ==
    [ok |-> TRUE, code |-> "", message |-> "", data |-> None,
     content |-> content, is_error |-> Some(FALSE)]

----------------------------------------------------------------------------
(* list_tools *)

\* serde_json::json!({}) / an empty serde_json::Map
EmptyMap == [k \in {} |-> JNull]

InputSchema(properties, required) ==
    [type |-> "object", properties |-> properties, required |-> required]

Tool(name, description, input_schema) ==
    [name |-> name, description |-> Some(description),
     input_schema |-> input_schema, annotations |-> None]

\* Mutant of Tools: a descriptor is advertised that has no match arm.
ToolsWithUnboundEntry ==
    << Tool("list_all_cats", "Get a list of all cats",
            InputSchema(EmptyMap, <<>>)),
       Tool("get_cat_by_id", "Get information about a specific cat by ID",
            InputSchema([id |-> [type |-> "number", description |-> "Cat ID"]],
                        <<"id">>)),
       Tool("search_by_breed", "Search for cats by breed",
            InputSchema([breed |-> [type |-> "string",
                                    description |-> "Breed to search for"]],
                        <<"breed">>)),
       Tool("get_indoor_cats", "Get only indoor cats",
            InputSchema(EmptyMap, <<>>)),
       Tool("delete_cat", "Delete a cat",
            InputSchema([id |-> [type |-> "number", description |-> "Cat ID"]],
                        <<"id">>)) >>

\* The vec![..] of list_tools.
Tools ==
    << Tool("list_all_cats", "Get a list of all cats",
            InputSchema(EmptyMap, <<>>)),
       Tool("get_cat_by_id", "Get information about a specific cat by ID",
            InputSchema([id |-> [type |-> "number", description |-> "Cat ID"]],
                        <<"id">>)),
       Tool("search_by_breed", "Search for cats by breed",
            InputSchema([breed |-> [type |-> "string",
                                    description |-> "Breed to search for"]],
                        <<"breed">>)),
       Tool("get_indoor_cats", "Get only indoor cats",
            InputSchema(EmptyMap, <<>>)) >>

\* Mutant of ListTools: the cursor is honoured, a request that carries one
\* gets the (empty) page after the catalog.
ListToolsPaged(pagination) ==
    IF IsSome(pagination) /\ IsSome(Unwrap(pagination).cursor)
    THEN [ok |-> TRUE, tools |-> <<>>, next_cursor |-> None]
    ELSE [ok |-> TRUE, tools |-> Tools, next_cursor |-> None]

\* list_tools(&self, _request, _context): the request is not looked at.
ListTools(pagination) == [ok |-> TRUE, tools |-> Tools, next_cursor |-> None]

----------------------------------------------------------------------------
(* call_tool *)

\* request.arguments.as_ref().and_then(|args| args.get(key))
Argument(arguments, key) ==
    IF IsSome(arguments) THEN args_get(Unwrap(arguments), key) ELSE None

\* Mutant of ParseId: a missing or unusable id defaults to 0 (unwrap_or(0))
\* instead of being refused.
ParseIdDefaulting(arguments) ==
    LET v == Argument(arguments, "id")
        n == IF IsSome(v) THEN as_u64(Unwrap(v)) ELSE None
    IN  IF IsSome(n) THEN Some(AsU32(Unwrap(n))) ELSE Some(U32(0))

\* .and_then(|v| v.as_u64()).map(|v| v as u32)
ParseId(arguments) ==
    LET v == Argument(arguments, "id")
        n == IF IsSome(v) THEN as_u64(Unwrap(v)) ELSE None
    IN  IF IsSome(n) THEN Some(AsU32(Unwrap(n))) ELSE None

\* Mutant of ParseBreed: a bag that holds anything besides breed is refused.
ParseBreedStrict(arguments) ==
    LET v == Argument(arguments, "breed")
    IN  IF IsSome(v) /\ DOMAIN Unwrap(arguments) = {"breed"}
        THEN as_str(Unwrap(v)) ELSE None

\* .and_then(|v| v.as_str())
ParseBreed(arguments) ==
    LET v == Argument(arguments, "breed")
    IN  IF IsSome(v) THEN as_str(Unwrap(v)) ELSE None

IdRequiredError == Err(INVALID_PARAMS, "ID is required")

BreedRequiredError == Err(INVALID_PARAMS, "Breed is required")

UnknownToolError(name) == Err(METHOD_NOT_FOUND, "Unknown tool: " \o name)

\* "list_all_cats" => ..
ListAllCats(m, order) ==
    LET all == Values(m, order)
    IN  OkResult(<<ContentText("All registered cats ("
                               \o ToDecimal(Usize(Len(all))) \o " cats):\n"
                               \o PrettyVec(all))>>)

\* "get_cat_by_id" => ..
GetCatById(m, arguments) ==
    LET id == ParseId(arguments)
    IN  IF ~IsSome(id) THEN IdRequiredError
        ELSE LET found == MapGet(m, Unwrap(id))
             IN  IF IsSome(found)
                 THEN OkResult(<<ContentText("Cat details (ID: "
                                             \o ToDecimal(Unwrap(id)) \o "):\n"
                                             \o PrettyCat(Unwrap(found), ""))>>)
                 ELSE OkResult(<<ContentText("Cat with ID "
                                             \o ToDecimal(Unwrap(id))
                                             \o " not found")>>)

\* Mutant of BreedMatches: equality instead of containment.
BreedEquals(cat, breed) == cat.breed = breed

\* |cat| cat.breed.contains(breed)
BreedMatches(cat, breed) == StrContains(cat.breed, breed)

\* "search_by_breed" => ..
SearchByBreed(m, order, arguments) ==
    LET breed == ParseBreed(arguments)
    IN  IF ~IsSome(breed) THEN BreedRequiredError
        ELSE LET b == Unwrap(breed)
                 Match(cat) == BreedMatches(cat, b)
                 matching_cats == SelectSeq(Values(m, order), Match)
             IN  IF matching_cats = <<>>
                 THEN OkResult(<<ContentText("No cats found with breed \""
                                             \o b \o "\"")>>)
                 ELSE OkResult(<<ContentText("Cats with breed \"" \o b \o "\" ("
                                             \o ToDecimal(Usize(Len(matching_cats)))
                                             \o " cats):\n"
                                             \o PrettyVec(matching_cats))>>)

\* "get_indoor_cats" => ..
GetIndoorCats(m, order) ==
    LET IsIndoor(cat) == cat.is_indoor
        indoor_cats == SelectSeq(Values(m, order), IsIndoor)
    IN  OkResult(<<ContentText("Indoor cats ("
                               \o ToDecimal(Usize(Len(indoor_cats)))
                               \o " cats):\n" \o PrettyVec(indoor_cats))>>)

\* The patterns of the arms of `match request.name.as_ref()`, in order; the
\* `_` arm is not listed.
MatchArms == <<"list_all_cats", "get_cat_by_id", "search_by_breed", "get_indoor_cats">>

\* Mutant of SelectArm: the name is compared ignoring letter case.
SelectArmIgnoreCase(name) ==
    LET hits == {i \in DOMAIN MatchArms : Lower(MatchArms[i]) = Lower(name)}
    IN  IF hits = {} THEN 0 ELSE CHOOSE i \in hits : \A j \in hits : i <= j

\* The arm the match selects: the first whose pattern equals the name, 0 for
\* the `_` arm.
SelectArm(name) ==
    LET hits == {i \in DOMAIN MatchArms : MatchArms[i] = name}
    IN  IF hits = {} THEN 0 ELSE CHOOSE i \in hits : \A j \in hits : i <= j

\* call_tool(&self, request, _context)
CallTool(m, order, name, arguments) ==
    LET arm == SelectArm(name)
    IN  CASE arm = 1 -> ListAllCats(m, order)
          [] arm = 2 -> GetCatById(m, arguments)
          [] arm = 3 -> SearchByBreed(m, order, arguments)
          [] arm = 4 -> GetIndoorCats(m, order)
          [] OTHER   -> UnknownToolError(name)

----------------------------------------------------------------------------
(* Requests the transport can deliver *)

\* The largest low word of a requested id: 0..MaxLowId covers every id of
\* the repository and 0.
MaxLowId == 4

\* The largest multiple of 2^32 added to a requested id.
MaxHighWord == 1

\* The largest number of keys in an argument bag.
MaxKeys == 2

\* Requested ids: JSON unsigned 64-bit numbers low + high * 2^32.
IdNumbers ==
    {U64(low) : low \in (0..MaxLowId) \cup {999}}
    \cup {<<low, 0, high, 0>> : low \in {1, 999}, high \in 1..MaxHighWord}
    \cup {U64Max}

BreedStrings == {"Persian", "persian", "Pers", "cat", "", "Nonexistent", ".*"}

ArgKeys == {"id", "breed", "extra"}

\* The values a key may carry: well typed and mistyped ones.
ValuesOf(key) ==
    CASE key = "id" ->
            {JPosInt(n) : n \in IdNumbers}
            \cup {JNegInt(U64(1)), JFloat("1.5"), JFloat("1.0"), JString("1"),
                  JBool(TRUE)}
      [] key = "breed" ->
            {JString(b) : b \in BreedStrings} \cup {JPosInt(U64(1))}
      [] OTHER -> {JObject}

AllValues == UNION {ValuesOf(k) : k \in ArgKeys}

\* serde_json::Map<String, Value> with at most MaxKeys keys.
ArgMaps ==
    UNION {{f \in [S -> AllValues] : \A k \in S : f[k] \in ValuesOf(k)} :
              S \in {T \in SUBSET ArgKeys : Cardinality(T) <= MaxKeys}}

\* CallToolRequestParam.arguments: Option<JsonObject>
ArgBags == {None} \cup {Some(f) : f \in ArgMaps}

ToolNames == {MatchArms[i] : i \in DOMAIN MatchArms}

UnknownNames == {"delete_cat", "List_All_Cats"}

RequestNames == ToolNames \cup UnknownNames

\* Option<PaginatedRequestParam>
Paginations == {None, Some([cursor |-> None]), Some([cursor |-> Some("page2")])}

CallRequest(name, arguments) ==
    [method |-> "tools/call", name |-> name, arguments |-> arguments,
     params |-> None]

ListRequest(pagination) ==
    [method |-> "tools/list", name |-> "", arguments |-> None,
     params |-> pagination]

----------------------------------------------------------------------------
(* The server *)

\* CatServer::new(), then serve(): no request in flight.
Init ==
    /\ cats = SampleCats
    /\ iterOrder \in Orders(SampleCats)
    /\ request = None
    /\ response = None

\* The service loop hands one request at a time to list_tools.  (Both
\* handlers take &self and write nothing, so handling requests one after
\* the other loses no behaviour of overlapping ones.)
list_tools(pagination) ==
    /\ request = None
    /\ request' = Some(ListRequest(pagination))
    /\ response' = Some(ListTools(pagination))
    /\ UNCHANGED <<cats, iterOrder>>

\* Mutant of call_tool: a cat that get_cat_by_id finds is taken out of the
\* map (HashMap::remove instead of HashMap::get).
call_tool_consuming(name, arguments) ==
    /\ request = None
    /\ request' = Some(CallRequest(name, arguments))
    /\ response' = Some(CallTool(cats, iterOrder, name, arguments))
    /\ cats' = IF name = "get_cat_by_id" /\ IsSome(ParseId(arguments))
                  /\ Unwrap(ParseId(arguments)) \in DOMAIN cats
               THEN [k \in DOMAIN cats \ {Unwrap(ParseId(arguments))} |-> cats[k]]
               ELSE cats
    /\ UNCHANGED iterOrder

\* The service loop hands one request at a time to call_tool.
call_tool(name, arguments) ==
    /\ request = None
    /\ request' = Some(CallRequest(name, arguments))
    /\ response' = Some(CallTool(cats, iterOrder, name, arguments))
    /\ UNCHANGED <<cats, iterOrder>>

\* The service loop writes the response and waits for the next request.
Reply ==
    /\ request # None
    /\ request' = None
    /\ response' = None
    /\ UNCHANGED <<cats, iterOrder>>

Next ==
    \/ \E pagination \in Paginations : list_tools(pagination)
    \/ \E name \in RequestNames, arguments \in ArgBags : call_tool(name, arguments)
    \/ Reply

Spec == Init /\ [][Next]_vars

----------------------------------------------------------------------------
(* Vocabulary of the properties *)

\* A call_tool (list_tools) request has been answered and not yet replied.
Called == request # None /\ Unwrap(request).method = "tools/call"

Listed == request # None /\ Unwrap(request).method = "tools/list"

req == Unwrap(request)

resp == Unwrap(response)

IsError(r, code) == ~r.ok /\ r.code = code

\* The catalog as a client sees it: what list_tools answers.
Advertised == ListTools(None).tools

AdvertisedNames == {Advertised[i].name : i \in DOMAIN Advertised}

SchemaOf(name) ==
    (CHOOSE t \in {Advertised[i] : i \in DOMAIN Advertised} : t.name = name).input_schema

DeclaredParams(name) == DOMAIN SchemaOf(name).properties

RequiredParams(name) ==
    {SchemaOf(name).required[i] : i \in DOMAIN SchemaOf(name).required}

Present(arguments, key) == IsSome(arguments) /\ key \in DOMAIN Unwrap(arguments)

\* A JSON value has a primitive type of the schema language; a "number" is
\* any integer or float.
HasType(v, type) ==
    CASE type = "number"  -> v.tag \in {"PosInt", "NegInt", "Float"}
      [] type = "string"  -> v.tag = "String"
      [] type = "boolean" -> v.tag = "Bool"
      [] OTHER            -> FALSE

WellTyped(name, arguments, key) ==
    HasType(Unwrap(arguments)[key], SchemaOf(name).properties[key].type)

\* The bag satisfies the advertised schema: every required parameter is
\* present, every declared parameter that is present has its declared type.
Satisfies(name, arguments) ==
    /\ \A key \in RequiredParams(name) : Present(arguments, key)
    /\ \A key \in DeclaredParams(name) :
          Present(arguments, key) => WellTyped(name, arguments, key)

\* w is a word of the text: a maximal run of characters other than a space.
IsWordOf(w, text) ==
    \E i \in 1..Len(text), j \in 1..Len(text) :
        /\ i <= j
        /\ SubSeq(text, i, j) = w
        /\ \A k \in i..j : SubSeq(text, k, k) # " "
        /\ (i = 1 \/ SubSeq(text, i - 1, i - 1) = " ")
        /\ (j = Len(text) \/ SubSeq(text, j + 1, j + 1) = " ")

\* A message names a parameter when one of its words is the parameter's
\* name, letter case apart ("ID is required" names id).
NamesParameter(message, key) == IsWordOf(Lower(key), Lower(message))

\* needle occurs in hay, stated by position.
OccursIn(needle, hay) ==
    \E i \in 0..(Len(hay) - Len(needle)) : SubSeq(hay, i + 1, i + Len(needle)) = needle

\* The bag with one key set, and with one key removed.
WithKey(arguments, key, v) ==
    LET old == IF IsSome(arguments) THEN Unwrap(arguments) ELSE EmptyMap
    IN  Some([k \in DOMAIN old \cup {key} |-> IF k = key THEN v ELSE old[k]])

WithoutKey(arguments, key) ==
    IF IsSome(arguments)
    THEN Some([k \in DOMAIN Unwrap(arguments) \ {key} |-> Unwrap(arguments)[k]])
    ELSE None

\* The bag cut down to a set of keys.
OnlyKeys(arguments, keys) ==
    IF IsSome(arguments)
    THEN Some([k \in DOMAIN Unwrap(arguments) \cap keys |-> Unwrap(arguments)[k]])
    ELSE None

\* The answer the server gives now to a call.
Answer(name, arguments) == CallTool(cats, iterOrder, name, arguments)

\* The answer a request gets as the first request of the session, when the
\* repository is the one CatServer::new built.
FirstAnswer(r) ==
    IF r.method = "tools/list" THEN ListTools(r.params)
    ELSE CallTool(SampleCats, iterOrder, r.name, r.arguments)

TextOf(r) == r.content[1].text

\* The entities of the repository.
Entities == {cats[k] : k \in DOMAIN cats}

----------------------------------------------------------------------------
(* Properties *)

\* C1: for every advertised tool name and every argument bag that satisfies
\* the tool's advertised schema (a "number" being any integer or float,
\* negative and fractional ones included), call_tool answers neither
\* method_not_found nor invalid_params.
C1_SatisfyingBagAccepted ==
    (Called /\ req.name \in AdvertisedNames /\ Satisfies(req.name, req.arguments))
        => ~IsError(resp, METHOD_NOT_FOUND) /\ ~IsError(resp, INVALID_PARAMS)

\* C2: a call that omits a required parameter of its tool (an absent bag
\* included) fails with invalid_params and a message that names the
\* parameter.
C2_OmittedRequiredRefused ==
    (Called /\ req.name \in AdvertisedNames)
        => \A key \in RequiredParams(req.name) :
              ~Present(req.arguments, key)
                  => IsError(resp, INVALID_PARAMS) /\ NamesParameter(resp.message, key)

\* C2 happens: get_cat_by_id was called with a bag that holds other keys
\* but no id, and was refused.
C2_Witness ==
    /\ Called
    /\ req.name = "get_cat_by_id"
    /\ IsSome(req.arguments)
    /\ Present(req.arguments, "breed")
    /\ ~Present(req.arguments, "id")
    /\ IsError(resp, INVALID_PARAMS)

\* C3: a call whose name is not in the catalog fails with method_not_found
\* and a message that contains the name, whatever the bag holds, and no
\* content is produced.
C3_UnknownNameRefused ==
    (Called /\ req.name \notin AdvertisedNames)
        => /\ IsError(resp, METHOD_NOT_FOUND)
           /\ OccursIn(req.name, resp.message)
           /\ resp.content = <<>>
           /\ resp = Answer(req.name, None)

\* C3 happens: delete_cat was called with a well-formed id and refused.
C3_Witness ==
    /\ Called
    /\ req.name = "delete_cat"
    /\ Present(req.arguments, "id")
    /\ IsError(resp, METHOD_NOT_FOUND)
    /\ OccursIn("delete_cat", resp.message)

\* Values of different types to set a key to.
Probes == {JPosInt(U64(1)), JString("Persian")}

\* The answer of a call depends on a key of its bag: removing the key, or
\* setting it to one of the probes, changes the answer.
Reads(key) ==
    \/ Answer(req.name, WithoutKey(req.arguments, key)) # resp
    \/ \E v \in Probes : Answer(req.name, WithKey(req.arguments, key, v)) # resp

\* C4: catalog and dispatcher are in lock-step: the advertised names are
\* distinct, each is the pattern of exactly one match arm and no other name
\* is; a call is answered method_not_found exactly when its name is not
\* advertised; and the keys of the bag a handler's answer depends on are
\* exactly the parameters its schema declares.
C4_CatalogDispatcherLockStep ==
    /\ \A i, j \in DOMAIN Advertised : Advertised[i].name = Advertised[j].name => i = j
    /\ \A name \in RequestNames \cup AdvertisedNames :
          Cardinality({i \in DOMAIN MatchArms : MatchArms[i] = name})
              = IF name \in AdvertisedNames THEN 1 ELSE 0
    /\ Called => (IsError(resp, METHOD_NOT_FOUND) <=> req.name \notin AdvertisedNames)
    /\ (Called /\ req.name \in AdvertisedNames)
          => \A key \in ArgKeys : (key \in DeclaredParams(req.name)) <=> Reads(key)

\* C4 happens: a handler that declares a parameter was called with that
\* parameter and an undeclared key, and answered.
C4_Witness ==
    /\ Called
    /\ req.name = "get_cat_by_id"
    /\ Present(req.arguments, "id")
    /\ Present(req.arguments, "extra")
    /\ resp.ok

\* C5: for every non-negative integer id (any u64) get_cat_by_id succeeds,
\* with the details of the entity that has exactly that id when there is
\* one, and otherwise with the statement that the cat with that id was not
\* found.
C5_EveryUnsignedIdLookedUp ==
    (Called /\ req.name = "get_cat_by_id" /\ Present(req.arguments, "id")
        /\ Unwrap(req.arguments)["id"].tag = "PosInt")
        => LET n   == Unwrap(req.arguments)["id"].n
               hit == {c \in Entities : WidenU32(c.id) = n}
           IN  /\ resp.ok
               /\ hit # {} =>
                     TextOf(resp) = "Cat details (ID: " \o ToDecimal(n) \o "):\n"
                                    \o PrettyCat(CHOOSE c \in hit : TRUE, "")
               /\ hit = {} =>
                     TextOf(resp) = "Cat with ID " \o ToDecimal(n) \o " not found"

\* C6: a required parameter that is present with a value of the wrong
\* primitive type is refused with invalid_params, and the message is not the
\* one a missing parameter gets.
C6_MistypedReportedAsMistyped ==
    (Called /\ req.name \in AdvertisedNames)
        => \A key \in RequiredParams(req.name) :
              (Present(req.arguments, key) /\ ~WellTyped(req.name, req.arguments, key))
                  => /\ IsError(resp, INVALID_PARAMS)
                     /\ resp.message
                            # Answer(req.name, WithoutKey(req.arguments, key)).message

\* C7: whatever was requested before and whatever the pagination token,
\* list_tools answers the four descriptors list_all_cats, get_cat_by_id,
\* search_by_breed, get_indoor_cats, in this order, with no next token; the
\* answer is the one every other token gets.
C7_ListToolsFixed ==
    Listed
        => /\ resp.ok
           /\ [i \in DOMAIN resp.tools |-> resp.tools[i].name]
                 = <<"list_all_cats", "get_cat_by_id", "search_by_breed", "get_indoor_cats">>
           /\ resp.next_cursor = None
           /\ \A pagination \in Paginations : ListTools(pagination) = resp

\* C7 happens: list_tools was called with a cursor and answered.
C7_Witness ==
    /\ Listed
    /\ req.params = Some([cursor |-> Some("page2")])
    /\ Len(resp.tools) = 4

\* The entities whose breed contains the value, in iteration order.
BreedHits(value) ==
    LET Hit(cat) == OccursIn(value, cat.breed)
    IN  SelectSeq(Values(cats, iterOrder), Hit)

\* C8: for every string given as breed, search_by_breed succeeds; the
\* entities reported are exactly those whose breed contains the string as a
\* case-sensitive substring; with none the content says that no cats were
\* found, otherwise the count reported is the number of matches.  On the
\* sample data "Persian" matches Shiro alone and "Nonexistent" nothing.
C8_SearchIsSubstringMatch ==
    (Called /\ req.name = "search_by_breed" /\ Present(req.arguments, "breed")
        /\ Unwrap(req.arguments)["breed"].tag = "String")
        => LET value == Unwrap(req.arguments)["breed"].s
               hits  == BreedHits(value)
           IN  /\ resp.ok
               /\ hits = <<>> =>
                     TextOf(resp) = "No cats found with breed \"" \o value \o "\""
               /\ hits # <<>> =>
                     TextOf(resp) = "Cats with breed \"" \o value \o "\" ("
                                    \o ToDecimal(Usize(Len(hits))) \o " cats):\n"
                                    \o PrettyVec(hits)
               /\ value = "Persian" => hits = <<Shiro>>
               /\ value = "Nonexistent" => hits = <<>>

\* C8 happens: a proper substring of one breed was searched and one cat
\* was reported.
C8_Witness ==
    /\ Called
    /\ req.name = "search_by_breed"
    /\ Present(req.arguments, "breed")
    /\ Unwrap(req.arguments)["breed"] = JString("Pers")
    /\ resp.ok
    /\ OccursIn("(1 cats)", TextOf(resp))
    /\ OccursIn("\"name\": \"Shiro\"", TextOf(resp))

\* C9: there is no cross-request state: the repository always holds the
\* entities it held at startup, and every answer is the one the same request
\* gets as the first request of the session.
C9_NoCrossRequestState ==
    /\ cats = SampleCats
    /\ response # None => resp = FirstAnswer(req)

\* C9 happens: a call was refused and the repository is as it was.
C9_Witness ==
    /\ Called
    /\ ~resp.ok
    /\ req.name = "get_cat_by_id"
    /\ cats = SampleCats

\* C10: undeclared keys are ignored: a call's answer is the answer to the
\* bag cut down to the parameters the tool declares, so bags that agree on
\* the declared parameters get the same answer; a bag that holds no declared
\* parameter is answered like an absent bag, and a tool without parameters
\* answers every bag alike.
C10_UndeclaredKeysIgnored ==
    (Called /\ req.name \in AdvertisedNames)
        => /\ resp = Answer(req.name, OnlyKeys(req.arguments, DeclaredParams(req.name)))
           /\ (\A key \in DeclaredParams(req.name) : ~Present(req.arguments, key))
                 => resp = Answer(req.name, None)

\* C10 happens: search_by_breed was called with breed and an undeclared key
\* and answered.
C10_Witness ==
    /\ Called
    /\ req.name = "search_by_breed"
    /\ Present(req.arguments, "breed")
    /\ Present(req.arguments, "extra")
    /\ resp.ok

====
